---------------------------- MODULE Spec2Model ----------------------------
(***************************************************************************)
(* Model of the hagz push server: the broadcast sender                     *)
(* (pushNotificationSender.js), the match reminder sender                  *)
(* (matchReminderSender.js) and the cron service that triggers it.         *)
(*                                                                         *)
(* A node process runs one entry point (variable service).  Every action   *)
(* is one synchronous stretch of an async function: from the resolution of *)
(* one await up to the next await, or up to the return.                    *)
(***************************************************************************)
EXTENDS Integers, Sequences, FiniteSets

(***************************************************************************)
(* Bounds of the model.                                                    *)
(***************************************************************************)
\* Longest tokens list of a broadcast.
MaxRecipients == 5
\* Longest participant list of a match.
MaxParticipants == 3
\* The provider's chunk size (100 in the Expo SDK), scaled down.
ChunkSize == 2
\* Concurrent invocations of processMatchReminders the cron model follows.
MaxCycles == 2

\* Largest number of ids in targetUserIds.
MaxTargets == 2

(***************************************************************************)
(* Values.                                                                 *)
(***************************************************************************)
\* Push tokens that match the Expo token grammar, and one that does not.
WellFormedTokens ==
    {"ExponentPushToken[a]", "ExponentPushToken[b]",
     "ExponentPushToken[c]", "ExponentPushToken[d]"}
MalformedToken == "not-a-token"
\* A user_profiles.push_token that is null.
NullToken == "null"

\* The tokens a broadcast caller passes.
SenderTokens == {"ExponentPushToken[a]", "ExponentPushToken[b]", MalformedToken}

\* Expo.isExpoPushToken: the token grammar check.
isExpoPushToken(t) == t \in WellFormedTokens

\* Push tickets of the provider: ok, or error with details.error.
TicketOk == [status |-> "ok", error |-> "none"]
TicketError(kind) == [status |-> "error", error |-> kind]
ErrorKinds == {"DeviceNotRegistered", "MessageRateExceeded"}
Tickets == {TicketOk} \cup {TicketError(k) : k \in ErrorKinds}

\* All sequences over S of length at most n.
SeqsUpTo(S, n) == UNION {[1..k -> S] : k \in 0..n}

Range(s) == {s[i] : i \in 1..Len(s)}

Min(a, b) == IF a < b THEN a ELSE b

\* expo.chunkPushNotifications: contiguous slices of at most ChunkSize
\* messages, in the order of the list.
RECURSIVE chunkPushNotifications(_)
chunkPushNotifications(msgs) ==
    IF Len(msgs) = 0 THEN <<>>
    ELSE LET n == Min(ChunkSize, Len(msgs))
         IN  <<SubSeq(msgs, 1, n)>> \o
             chunkPushNotifications(SubSeq(msgs, n + 1, Len(msgs)))

\* One entry of the transport's own record of a submission: the batch it was
\* handed and what it answered (one ticket per message, or a raised error).
Submission(batch, raisedErr, tks) ==
    [batch |-> batch, raised |-> raisedErr, tickets |-> tks]

\* The answers the transport can give to a batch: one ticket per message.
Responses(batch) == [1..Len(batch) -> Tickets]

VARIABLES
    service,    \* the entry point this process runs
    \* ---- sendPushNotifications (one call at a time)
    pc,         \* "idle", "sending", "returned" ("threw": an error escaped)
    tokens,     \* the tokens argument
    messages,   \* the messages built from the valid tokens
    chunks,     \* expo.chunkPushNotifications(messages)
    chunkIdx,   \* position of the for-of loop over chunks
    tickets,    \* the tickets collected so far
    result,     \* the returned object
    errorLog,   \* console.error lines "Failed to send notification to <token>"
    sent,       \* the transport's record of the submissions of this call
    \* ---- the data store
    reminderSent,   \* per match: the "reminder sent" flag
    pushToken,      \* per user: user_profiles.push_token
    notifications,  \* the inserts into the notifications table (rows per insert)
    \* ---- processMatchReminders, one record per invocation
    cyc,
    \* ---- sendBulkGameInvitations (one call at a time)
    bulk

senderVars == <<pc, tokens, messages, chunks, chunkIdx, tickets, result, errorLog, sent>>
storeVars == <<reminderSent, pushToken, notifications>>
vars == <<service, senderVars, storeVars, cyc, bulk>>

NoResult == [success |-> 0, failed |-> 0, total |-> 0, invalidTokens |-> <<>>]

(***************************************************************************)
(* sendPushNotifications                                                   *)
(***************************************************************************)
\* Mutant of BuildMessages: the grammar check does not skip the token.
BuildMessages_NoFilter(tks) == [i \in 1..Len(tks) |-> [to |-> tks[i]]]

\* Lines 22-40: one message per token that passes the grammar check.
BuildMessages(tks) ==
    LET valid == SelectSeq(tks, isExpoPushToken)
    IN  [i \in 1..Len(valid) |-> [to |-> valid[i]]]

\* Lines 57-74: the indices of the tickets that are not ok, in order.
RECURSIVE FailedIndices(_, _)
FailedIndices(tks, i) ==
    IF i > Len(tks) THEN <<>>
    ELSE (IF tks[i].status = "ok" THEN <<>> ELSE <<i>>) \o FailedIndices(tks, i + 1)

\* Line 67: the token the forEach callback names for ticket number index.
TokenOfTicket(tks, index) == tks[index]

\* Lines 57-84: count the tickets and build the returned object.
CountResults(tks, tkts) ==
    LET bad == FailedIndices(tkts, 1)
        dnr == SelectSeq(bad, LAMBDA i : tkts[i].error = "DeviceNotRegistered")
    IN  [success       |-> Len(tkts) - Len(bad),
         failed        |-> Len(bad),
         total         |-> Len(tks),
         invalidTokens |-> [j \in 1..Len(dnr) |-> TokenOfTicket(tks, dnr[j])]]

\* Line 67: the console.error lines of the forEach.
FailureLines(tks, tkts) ==
    LET bad == FailedIndices(tkts, 1)
    IN  [j \in 1..Len(bad) |->
            [to |-> TokenOfTicket(tks, bad[j]), ticket |-> tkts[bad[j]]]]

\* The rest of the function once the loop over chunks has position idx:
\* either wait for the next submission or count and return.
Continue(tks, idx, chs, tkts) ==
    IF idx <= Len(chs)
    THEN /\ pc' = "sending"
         /\ result' = NoResult
         /\ errorLog' = <<>>
    ELSE /\ pc' = "returned"
         /\ result' = CountResults(tks, tkts)
         /\ errorLog' = FailureLines(tks, tkts)

\* Lines 18-49: a call; runs up to the first await, or to the return when
\* there is nothing to submit.
Call(tks) ==
    /\ service = "sender"
    /\ pc = "idle"
    /\ tokens' = tks
    /\ messages' = BuildMessages(tks)
    /\ chunks' = chunkPushNotifications(messages')
    /\ chunkIdx' = 1
    /\ tickets' = <<>>
    /\ sent' = <<>>
    /\ Continue(tks, 1, chunks', <<>>)
    /\ UNCHANGED <<service, storeVars, cyc, bulk>>

\* Lines 49-51: the transport answers the submitted chunk.
SendChunkOk(resp) ==
    /\ pc = "sending"
    /\ chunkIdx <= Len(chunks)
    /\ sent' = Append(sent, Submission(chunks[chunkIdx], FALSE, resp))
    /\ tickets' = tickets \o resp
    /\ chunkIdx' = chunkIdx + 1
    /\ Continue(tokens, chunkIdx', chunks, tickets')
    /\ UNCHANGED <<service, tokens, messages, chunks, storeVars, cyc, bulk>>

\* Mutant of SendChunkRaise: the catch leaves the loop, so the remaining
\* chunks are not submitted.
SendChunkRaise_Abort ==
    /\ pc = "sending"
    /\ chunkIdx <= Len(chunks)
    /\ sent' = Append(sent, Submission(chunks[chunkIdx], TRUE, <<>>))
    /\ tickets' = tickets
    /\ chunkIdx' = chunkIdx + 1
    /\ Continue(tokens, Len(chunks) + 1, chunks, tickets')
    /\ UNCHANGED <<service, tokens, messages, chunks, storeVars, cyc, bulk>>

\* Mutant of SendChunkRaise: no try/catch, the transport's error escapes.
SendChunkRaise_Rethrow ==
    /\ pc = "sending"
    /\ chunkIdx <= Len(chunks)
    /\ sent' = Append(sent, Submission(chunks[chunkIdx], TRUE, <<>>))
    /\ pc' = "threw"
    /\ UNCHANGED <<service, tokens, messages, chunks, chunkIdx, tickets, result,
                   errorLog, storeVars, cyc, bulk>>

\* Lines 52-54: the transport raises; the error is logged and the loop goes on.
SendChunkRaise ==
    /\ pc = "sending"
    /\ chunkIdx <= Len(chunks)
    /\ sent' = Append(sent, Submission(chunks[chunkIdx], TRUE, <<>>))
    /\ tickets' = tickets
    /\ chunkIdx' = chunkIdx + 1
    /\ Continue(tokens, chunkIdx', chunks, tickets')
    /\ UNCHANGED <<service, tokens, messages, chunks, storeVars, cyc, bulk>>

SenderNext ==
    \/ \E tks \in (IF pc = "idle" THEN SeqsUpTo(SenderTokens, MaxRecipients) ELSE {}) :
          Call(tks)
    \/ \E resp \in Responses(IF pc = "sending" THEN chunks[chunkIdx] ELSE <<>>) :
          SendChunkOk(resp)
    \/ SendChunkRaise

(***************************************************************************)
(* The data store and the match reminder sender                            *)
(***************************************************************************)
\* The matches of the store and the users, in the order the queries list them.
Matches == <<"m1", "m2">>
Users == <<"u1", "u2", "u3", "u4", "u5">>

\* user_profiles.push_token before any cleanup: u2 holds a malformed token.
InitialToken ==
    [u \in Range(Users) |->
        CASE u = "u1" -> "ExponentPushToken[a]"
          [] u = "u2" -> MalformedToken
          [] u = "u3" -> "ExponentPushToken[b]"
          [] u = "u4" -> "ExponentPushToken[c]"
          [] OTHER    -> "ExponentPushToken[d]"]

\* The subsequences of a list with at most n elements.
SubSeqsUpTo(list, n) ==
    {SelectSeq(list, LAMBDA x : x \in S) :
        S \in {T \in SUBSET Range(list) : Cardinality(T) <= n}}

\* The participant lists get_match_participants can return: for the reminder
\* script any list of users, for the cron service none or user u1.
Rosters ==
    IF service = "cron" THEN {<<>>, <<"u1">>}
    ELSE SubSeqsUpTo(Users, MaxParticipants)

Cycles == 1..MaxCycles

\* No answer of the participants query is waiting to be handled.
NoReply == [arrived |-> FALSE, error |-> FALSE, data |-> <<>>]

\* An invocation of processMatchReminders that has not started.  reply is
\* the answer of get_match_participants the invocation has yet to resume
\* with; processed lists the matches of the "Processing match" lines.
IdleCycle ==
    [pc |-> "idle", matches |-> <<>>, mi |-> 0, validParticipants |-> <<>>,
     chunks |-> <<>>, chunkIdx |-> 1, tickets |-> <<>>, sent |-> <<>>,
     ti |-> 0, ticketLog |-> <<>>, reply |-> NoReply, processed |-> <<>>]

\* rpc('get_matches_needing_reminders'): the matches not yet marked.
MatchesNeedingReminders == SelectSeq(Matches, LAMBDA m : ~reminderSent[m])

\* Lines 570-574 and 584-590: the for-of loop over matches reaches position
\* i: call processMatchReminder up to its participants query, or finish.
BeginMatch(r, i) ==
    IF i <= Len(r.matches)
    THEN [IdleCycle EXCEPT !.pc = "participants", !.matches = r.matches, !.mi = i,
                           !.processed = Append(r.processed, r.matches[i])]
    ELSE [IdleCycle EXCEPT !.pc = "done", !.matches = r.matches, !.mi = i,
                           !.processed = r.processed]

\* Lines 549-555: processMatchReminders is invoked and queries the matches.
RunReminders(c) ==
    /\ cyc[c].pc = "idle"
    /\ cyc' = [cyc EXCEPT ![c].pc = "fetching"]
    /\ UNCHANGED <<service, senderVars, bulk, storeVars>>

\* Lines 796-799: the reminder sender run as a script.
DirectRun ==
    /\ service = "reminder"
    /\ RunReminders(1)

\* Lines 554-572: the matches query answers.
FetchMatches(c) ==
    /\ cyc[c].pc = "fetching"
    /\ \/ cyc' = [cyc EXCEPT ![c].pc = "done"]
       \/ cyc' = [cyc EXCEPT ![c] =
                     BeginMatch([@ EXCEPT !.matches = MatchesNeedingReminders], 1)]
    /\ UNCHANGED <<service, senderVars, bulk, storeVars>>

\* Lines 604-606: the participants with a well-formed token.
ValidParticipants(participants) ==
    SelectSeq(participants,
              LAMBDA p : p.push_token # NullToken /\ isExpoPushToken(p.push_token))

\* Lines 622-638: one message per valid participant.
ReminderMessages(valid) == [i \in 1..Len(valid) |-> [to |-> valid[i].push_token]]

\* Lines 589-590: the store answers get_match_participants, with an error
\* or with the participants of the match and their current tokens.
AnswerParticipants(c) ==
    /\ cyc[c].pc = "participants"
    /\ ~cyc[c].reply.arrived
    /\ \/ cyc' = [cyc EXCEPT ![c].reply =
                      [arrived |-> TRUE, error |-> TRUE, data |-> <<>>]]
       \/ \E roster \in Rosters :
             cyc' = [cyc EXCEPT ![c].reply =
                        [arrived |-> TRUE, error |-> FALSE,
                         data |-> [i \in 1..Len(roster) |->
                                     [user_id |-> roster[i],
                                      push_token |-> pushToken[roster[i]]]]]]
    /\ UNCHANGED <<service, senderVars, bulk, storeVars>>

\* Not the code: an error of the participants query ends the whole cycle.
GetParticipants_AbortOnError(c) ==
    /\ cyc[c].pc = "participants"
    /\ cyc[c].reply.arrived
    /\ LET participants == cyc[c].reply.data
           valid == ValidParticipants(participants)
       IN  IF cyc[c].reply.error
           THEN cyc' = [cyc EXCEPT ![c].pc = "done", ![c].reply = NoReply]
           ELSE IF Len(participants) = 0 \/ Len(valid) = 0
           THEN cyc' = [cyc EXCEPT ![c].pc = "markingEmpty"]
           ELSE cyc' = [cyc EXCEPT
                           ![c].pc = "sending",
                           ![c].reply = NoReply,
                           ![c].validParticipants = valid,
                           ![c].chunks = chunkPushNotifications(ReminderMessages(valid)),
                           ![c].chunkIdx = 1,
                           ![c].tickets = <<>>]
    /\ UNCHANGED <<service, senderVars, bulk, storeVars>>

\* Not the code: a match with nobody to notify is left without marking it.
GetParticipants_EmptySkipsMark(c) ==
    /\ cyc[c].pc = "participants"
    /\ cyc[c].reply.arrived
    /\ LET participants == cyc[c].reply.data
           valid == ValidParticipants(participants)
       IN  IF cyc[c].reply.error
           THEN cyc' = [cyc EXCEPT ![c] = BeginMatch(@, @.mi + 1)]
           ELSE IF Len(participants) = 0 \/ Len(valid) = 0
           THEN cyc' = [cyc EXCEPT ![c] = BeginMatch(@, @.mi + 1)]
           ELSE cyc' = [cyc EXCEPT
                           ![c].pc = "sending",
                           ![c].reply = NoReply,
                           ![c].validParticipants = valid,
                           ![c].chunks = chunkPushNotifications(ReminderMessages(valid)),
                           ![c].chunkIdx = 1,
                           ![c].tickets = <<>>]
    /\ UNCHANGED <<service, senderVars, bulk, storeVars>>

\* Lines 589-648: processMatchReminder resumes with the answer: return on an
\* error, mark the reminder sent when there is nobody to notify (the
\* participants stay in scope while the mark is awaited), else build the
\* messages and submit the first chunk.
GetParticipants(c) ==
    /\ cyc[c].pc = "participants"
    /\ cyc[c].reply.arrived
    /\ LET participants == cyc[c].reply.data
           valid == ValidParticipants(participants)
       IN  IF cyc[c].reply.error
           THEN cyc' = [cyc EXCEPT ![c] = BeginMatch(@, @.mi + 1)]
           ELSE IF Len(participants) = 0 \/ Len(valid) = 0
           THEN cyc' = [cyc EXCEPT ![c].pc = "markingEmpty"]
           ELSE cyc' = [cyc EXCEPT
                           ![c].pc = "sending",
                           ![c].reply = NoReply,
                           ![c].validParticipants = valid,
                           ![c].chunks = chunkPushNotifications(ReminderMessages(valid)),
                           ![c].chunkIdx = 1,
                           ![c].tickets = <<>>]
    /\ UNCHANGED <<service, senderVars, bulk, storeVars>>

\* The rest of processMatchReminder once the loop over chunks has position
\* idx: wait for the next submission, or call logNotifications.
AfterChunk(r, idx) ==
    IF idx <= Len(r.chunks) THEN [r EXCEPT !.chunkIdx = idx]
    ELSE [r EXCEPT !.chunkIdx = idx, !.pc = "logging"]

\* Lines 648-650: the transport answers the submitted chunk.
ReminderSendOk(c, resp) ==
    /\ cyc[c].pc = "sending"
    /\ cyc' = [cyc EXCEPT ![c] =
                  AfterChunk([@ EXCEPT
                                 !.sent = Append(@, Submission(cyc[c].chunks[cyc[c].chunkIdx],
                                                               FALSE, resp)),
                                 !.tickets = @ \o resp],
                             @.chunkIdx + 1)]
    /\ UNCHANGED <<service, senderVars, bulk, storeVars>>

\* Lines 651-653: the transport raises; the error is logged and the loop goes on.
ReminderSendRaise(c) ==
    /\ cyc[c].pc = "sending"
    /\ cyc' = [cyc EXCEPT ![c] =
                  AfterChunk([@ EXCEPT
                                 !.sent = Append(@, Submission(cyc[c].chunks[cyc[c].chunkIdx],
                                                               TRUE, <<>>))],
                             @.chunkIdx + 1)]
    /\ UNCHANGED <<service, senderVars, bulk, storeVars>>

\* Lines 675-702 and 657-660: the insert into notifications answers (an
\* error is only logged), then markReminderSent is called.
LogNotifications(c) ==
    /\ cyc[c].pc = "logging"
    /\ \/ notifications' =
             Append(notifications,
                    [booking_id |-> cyc[c].matches[cyc[c].mi],
                     rows |-> Len(cyc[c].validParticipants)])
       \/ notifications' = notifications
    /\ cyc' = [cyc EXCEPT ![c].pc = "marking"]
    /\ UNCHANGED <<service, senderVars, bulk, reminderSent, pushToken>>

\* Line 728: the participant processTickets pairs with ticket number i.
ParticipantOfTicket(participants, i) == participants[i]

\* Lines 726-742: processTickets from ticket number from on: every ticket is
\* logged against a participant; at a DeviceNotRegistered ticket the loop
\* waits for removeInvalidToken.
RECURSIVE ScanTickets(_, _)
ScanTickets(r, from) ==
    IF from > Len(r.tickets) THEN [r EXCEPT !.pc = "ticketsDone", !.ti = from]
    ELSE LET line == [user_id |-> ParticipantOfTicket(r.validParticipants, from).user_id,
                      ticket  |-> r.tickets[from]]
             logged == [r EXCEPT !.ticketLog = Append(@, line)]
         IN  IF r.tickets[from] = TicketError("DeviceNotRegistered")
             THEN [logged EXCEPT !.pc = "removing", !.ti = from]
             ELSE ScanTickets(logged, from + 1)

\* Not the code: when the mark mutation fails, the tickets are not processed.
MarkReminderSent_ErrorSkipsTickets(c) ==
    /\ cyc[c].pc \in {"marking", "markingEmpty"}
    /\ \/ /\ reminderSent' = [reminderSent EXCEPT ![cyc[c].matches[cyc[c].mi]] = TRUE]
          /\ cyc' = [cyc EXCEPT ![c] =
                        IF @.pc = "markingEmpty" THEN BeginMatch(@, @.mi + 1)
                        ELSE ScanTickets(@, 1)]
       \/ /\ reminderSent' = reminderSent
          /\ cyc' = [cyc EXCEPT ![c] = BeginMatch(@, @.mi + 1)]
    /\ UNCHANGED <<service, senderVars, bulk, pushToken, notifications>>

\* Lines 707-720 and 599-600, 610-611, 660-663: the mark_reminder_sent
\* mutation answers (an error is only logged); then either return (nobody to
\* notify) or processTickets.
MarkReminderSent(c) ==
    /\ cyc[c].pc \in {"marking", "markingEmpty"}
    /\ \/ reminderSent' = [reminderSent EXCEPT ![cyc[c].matches[cyc[c].mi]] = TRUE]
       \/ reminderSent' = reminderSent
    /\ cyc' = [cyc EXCEPT ![c] =
                  IF @.pc = "markingEmpty" THEN BeginMatch(@, @.mi + 1)
                  ELSE ScanTickets(@, 1)]
    /\ UNCHANGED <<service, senderVars, bulk, pushToken, notifications>>

\* Lines 747-760 and 736: the update of user_profiles answers (an error is
\* only logged); processTickets goes on with the next ticket.
RemoveInvalidToken(c) ==
    /\ cyc[c].pc = "removing"
    /\ \/ pushToken' =
             [pushToken EXCEPT
                 ![ParticipantOfTicket(cyc[c].validParticipants, cyc[c].ti).user_id] = NullToken]
       \/ pushToken' = pushToken
    /\ cyc' = [cyc EXCEPT ![c] = ScanTickets(@, @.ti + 1)]
    /\ UNCHANGED <<service, senderVars, bulk, reminderSent, notifications>>

\* Lines 663-665 and 570-574: processTickets has returned; the match is
\* completed and the loop over matches goes on.
FinishMatch(c) ==
    /\ cyc[c].pc = "ticketsDone"
    /\ cyc' = [cyc EXCEPT ![c] = BeginMatch(@, @.mi + 1)]
    /\ UNCHANGED <<service, senderVars, bulk, storeVars>>

ReminderStep(c) ==
    \/ FetchMatches(c)
    \/ AnswerParticipants(c)
    \/ GetParticipants(c)
    \/ \E resp \in Responses(IF cyc[c].pc = "sending"
                             THEN cyc[c].chunks[cyc[c].chunkIdx] ELSE <<>>) :
          ReminderSendOk(c, resp)
    \/ ReminderSendRaise(c)
    \/ LogNotifications(c)
    \/ MarkReminderSent(c)
    \/ RemoveInvalidToken(c)
    \/ FinishMatch(c)

(***************************************************************************)
(* The cron service                                                        *)
(***************************************************************************)
\* Lines 35-39: the run at startup.
StartupRun ==
    /\ service = "cron"
    /\ RunReminders(1)

\* Lines 14-23: a tick of the schedule invokes processMatchReminders,
\* whatever earlier invocations are doing.
CronTick ==
    /\ service = "cron"
    /\ cyc[1].pc # "idle"
    /\ \E c \in Cycles :
          /\ \A d \in 1..(c - 1) : cyc[d].pc # "idle"
          /\ RunReminders(c)

(***************************************************************************)
(* sendBulkGameInvitations and sendGameInvitationNotification              *)
(***************************************************************************)
\* The ids a bulk call is given: u1 has a well-formed token, u2 has not.
TargetUsers == {"u1", "u2"}

\* A call of sendBulkGameInvitations that has not started.  sent is the
\* transport's record of the submission of the invitation in progress.
IdleBulk ==
    [pc |-> "idle", targetUserIds |-> <<>>, idx |-> 0, success |-> 0,
     failed |-> 0, errors |-> <<>>, sent |-> <<>>]

\* Lines 155-178: sendGameInvitationNotification has returned for the id at
\* b.idx; the result is counted and the loop goes on, or the call returns.
CountInvitation(b, ok, err) ==
    LET counted == IF ok
                   THEN [b EXCEPT !.success = @ + 1]
                   ELSE [b EXCEPT !.failed = @ + 1,
                                  !.errors = Append(@, [user |-> b.targetUserIds[b.idx],
                                                        error |-> err])]
    IN  IF b.idx < Len(b.targetUserIds)
        THEN [counted EXCEPT !.pc = "targetUser", !.idx = @ + 1, !.sent = <<>>]
        ELSE [counted EXCEPT !.pc = "returned"]

\* Lines 133-156: the call; results start at zero and the loop takes the
\* first id, if there is one.
BulkCall(ids) ==
    /\ service = "invitations"
    /\ bulk.pc = "idle"
    /\ bulk' = IF ids = <<>>
               THEN [IdleBulk EXCEPT !.pc = "returned"]
               ELSE [IdleBulk EXCEPT !.pc = "targetUser", !.targetUserIds = ids,
                                     !.idx = 1]
    /\ UNCHANGED <<service, senderVars, storeVars, cyc>>

\* Lines 39-57: the query for the target user answers: an error or no row,
\* or the row, whose push_token must be present and well formed.
TargetUserAnswer ==
    /\ bulk.pc = "targetUser"
    /\ LET token == pushToken[bulk.targetUserIds[bulk.idx]]
       IN  \/ bulk' = CountInvitation(bulk, FALSE, "User not found")
           \/ bulk' = IF token = NullToken
                      THEN CountInvitation(bulk, FALSE, "No push token")
                      ELSE IF ~isExpoPushToken(token)
                      THEN CountInvitation(bulk, FALSE, "Invalid push token")
                      ELSE [bulk EXCEPT !.pc = "inviter"]
    /\ UNCHANGED <<service, senderVars, storeVars, cyc>>

\* Lines 61-70: the query for the inviter answers.
InviterAnswer ==
    /\ bulk.pc = "inviter"
    /\ \/ bulk' = CountInvitation(bulk, FALSE, "Inviter not found")
       \/ bulk' = [bulk EXCEPT !.pc = "sending"]
    /\ UNCHANGED <<service, senderVars, storeVars, cyc>>

\* Lines 77-102: the message to the target user's token.
InvitationMessage == [to |-> pushToken[bulk.targetUserIds[bulk.idx]]]

\* Lines 102-103: the transport answers the one message with a ticket.
InvitationSendOk(ticket) ==
    /\ bulk.pc = "sending"
    /\ bulk' = [bulk EXCEPT !.pc = "logging",
                            !.sent = <<Submission(<<InvitationMessage>>, FALSE,
                                                  <<ticket>>)>>]
    /\ UNCHANGED <<service, senderVars, storeVars, cyc>>

\* Lines 102 and 124-127: the transport raises; the catch of
\* sendGameInvitationNotification turns the error into a failed result.
InvitationSendRaise ==
    /\ bulk.pc = "sending"
    /\ bulk' = CountInvitation(
                  [bulk EXCEPT !.sent = <<Submission(<<InvitationMessage>>, TRUE, <<>>)>>],
                  FALSE, "raised")
    /\ UNCHANGED <<service, senderVars, storeVars, cyc>>

\* Lines 106, 192-218 and 109-122: the insert into notifications answers (an
\* error is only logged), then the ticket decides the result.
LogInvitationNotification ==
    /\ bulk.pc = "logging"
    /\ \/ notifications' = Append(notifications, [booking_id |-> "game", rows |-> 1])
       \/ notifications' = notifications
    /\ LET ticket == bulk.sent[1].tickets[1]
       IN  bulk' = IF ticket.status = "error"
                   THEN IF ticket.error = "DeviceNotRegistered"
                        THEN [bulk EXCEPT !.pc = "removing"]
                        ELSE CountInvitation(bulk, FALSE, ticket.error)
                   ELSE CountInvitation(bulk, TRUE, "none")
    /\ UNCHANGED <<service, senderVars, reminderSent, pushToken, cyc>>

\* Lines 115-118 and 223-238: the update of user_profiles answers (an error
\* is only logged); the invitation has failed.
InvitationRemoveInvalidToken ==
    /\ bulk.pc = "removing"
    /\ \/ pushToken' = [pushToken EXCEPT ![bulk.targetUserIds[bulk.idx]] = NullToken]
       \/ pushToken' = pushToken
    /\ bulk' = CountInvitation(bulk, FALSE, "DeviceNotRegistered")
    /\ UNCHANGED <<service, senderVars, reminderSent, notifications, cyc>>

BulkNext ==
    \/ \E ids \in (IF bulk.pc = "idle" THEN SeqsUpTo(TargetUsers, MaxTargets) ELSE {}) :
          BulkCall(ids)
    \/ TargetUserAnswer
    \/ InviterAnswer
    \/ \E ticket \in Tickets : InvitationSendOk(ticket)
    \/ InvitationSendRaise
    \/ LogInvitationNotification
    \/ InvitationRemoveInvalidToken

(***************************************************************************)
(* Specifications                                                          *)
(***************************************************************************)
SenderIdle ==
    /\ pc = "idle"
    /\ tokens = <<>>
    /\ messages = <<>>
    /\ chunks = <<>>
    /\ chunkIdx = 1
    /\ tickets = <<>>
    /\ result = NoResult
    /\ errorLog = <<>>
    /\ sent = <<>>

StoreInit ==
    /\ pushToken = InitialToken
    /\ notifications = <<>>
    /\ cyc = [c \in Cycles |-> IdleCycle]
    /\ bulk = IdleBulk

\* A process runs the broadcast sender, the reminder script or a bulk
\* invitation.
Init ==
    /\ service \in {"sender", "reminder", "invitations"}
    /\ SenderIdle
    /\ StoreInit
    /\ reminderSent = [m \in Range(Matches) |-> FALSE]

Next ==
    \/ SenderNext
    \/ BulkNext
    \/ DirectRun
    \/ \E c \in Cycles : ReminderStep(c)

Spec == Init /\ [][Next]_vars

\* A process runs the cron service; match m2 has had its reminder.
CronInit ==
    /\ service = "cron"
    /\ SenderIdle
    /\ StoreInit
    /\ reminderSent = [m \in Range(Matches) |-> m = "m2"]

CronNext ==
    \/ StartupRun
    \/ CronTick
    \/ \E c \in Cycles : ReminderStep(c)

CronSpec == CronInit /\ [][CronNext]_vars

(***************************************************************************)
(* What the transport itself saw and answered, for stating the claims.     *)
(***************************************************************************)
\* The tokens of a list that pass validation, in order.
Validated(tks) == SelectSeq(tks, LAMBDA t : t \in WellFormedTokens)

\* The transport answered ticket tk to a message addressed to token t.
GotTicket(log, t, tk) ==
    \E k \in DOMAIN log :
        /\ ~log[k].raised
        /\ \E i \in DOMAIN log[k].batch :
              log[k].batch[i].to = t /\ log[k].tickets[i] = tk

\* Token t was in a submitted batch.
WasSubmitted(log, t) ==
    \E k \in DOMAIN log : \E i \in DOMAIN log[k].batch : log[k].batch[i].to = t

\* The addresses of all submitted batches, concatenated in submission order.
RECURSIVE Addresses(_, _)
Addresses(log, k) ==
    IF k > Len(log) THEN <<>>
    ELSE [i \in DOMAIN log[k].batch |-> log[k].batch[i].to] \o Addresses(log, k + 1)

\* The number of recipients in batches for which the transport raised.
RECURSIVE RaisedRecipients(_, _)
RaisedRecipients(log, k) ==
    IF k > Len(log) THEN 0
    ELSE (IF log[k].raised THEN Len(log[k].batch) ELSE 0) + RaisedRecipients(log, k + 1)

\* The number of error tickets the transport answered.
RECURSIVE ErrorTickets(_, _)
ErrorTickets(log, k) ==
    IF k > Len(log) THEN 0
    ELSE Cardinality({i \in DOMAIN log[k].tickets : log[k].tickets[i].status # "ok"})
         + ErrorTickets(log, k + 1)

CeilDiv(n, c) == (n + c - 1) \div c

(***************************************************************************)
(* Claims.                                                                 *)
(***************************************************************************)
\* C1: the result of a dispatch call satisfies delivered + failed =
\* submitted, the number of recipients whose address passed validation.
C1_DeliveredPlusFailedIsSubmitted ==
    pc = "returned" =>
        result.success + result.failed = Len(Validated(tokens))

\* The token the message to user u of cycle c's current match was sent to.
AddressOf(c, u) ==
    LET p == CHOOSE q \in Range(cyc[c].validParticipants) : q.user_id = u
    IN  p.push_token

\* C2: every delivery outcome is attributed to the recipient whose message
\* had the same position in the same submitted batch: the failure lines of
\* sendPushNotifications and the lines of processTickets name a recipient
\* to whose own message the transport answered that ticket.
C2_OutcomeAttributedToOwnRecipient ==
    /\ pc = "returned" =>
          \A j \in DOMAIN errorLog :
             GotTicket(sent, errorLog[j].to, errorLog[j].ticket)
    /\ \A c \in Cycles : \A j \in DOMAIN cyc[c].ticketLog :
          GotTicket(cyc[c].sent, AddressOf(c, cyc[c].ticketLog[j].user_id),
                    cyc[c].ticketLog[j].ticket)

\* The same for processTickets alone.
ReminderAttribution ==
    \A c \in Cycles : \A j \in DOMAIN cyc[c].ticketLog :
        GotTicket(cyc[c].sent, AddressOf(c, cyc[c].ticketLog[j].user_id),
                  cyc[c].ticketLog[j].ticket)

\* cycle c is past the loop over the chunks of its current match.
PastSending(c) == cyc[c].pc \in {"logging", "marking", "removing", "ticketsDone"}

\* C3: a raised transport error does not stop the loop: the batches are
\* submitted one by one in order, each exactly once, none again, and the
\* call goes on to its result only when all of them were submitted; in
\* sendPushNotifications and in processMatchReminder.
C3_EveryBatchSubmittedOnce ==
    /\ pc \in {"sending", "returned"} =>
          /\ Len(sent) = chunkIdx - 1
          /\ Len(sent) <= Len(chunks)
          /\ \A k \in DOMAIN sent : sent[k].batch = chunks[k]
    /\ pc = "returned" => Len(sent) = Len(chunks)
    /\ \A c \in Cycles :
          /\ (cyc[c].pc = "sending" \/ PastSending(c)) =>
                /\ Len(cyc[c].sent) = cyc[c].chunkIdx - 1
                /\ Len(cyc[c].sent) <= Len(cyc[c].chunks)
                /\ \A k \in DOMAIN cyc[c].sent : cyc[c].sent[k].batch = cyc[c].chunks[k]
          /\ PastSending(c) => Len(cyc[c].sent) = Len(cyc[c].chunks)

\* C3 happens: the transport raised for the first of three batches and the
\* other two were still submitted and answered before the call returned.
C3_Witness ==
    /\ pc = "returned"
    /\ Len(sent) = 3
    /\ sent[1].raised /\ ~sent[2].raised /\ ~sent[3].raised

\* C4: when the transport raises for a batch, every recipient of the batch
\* is counted in failed and none of them is put in the invalid-recipient
\* list (unless the provider itself reported the address unregistered).
C4_RaisedBatchCountedFailed ==
    pc = "returned" =>
        /\ result.failed = ErrorTickets(sent, 1) + RaisedRecipients(sent, 1)
        /\ \A k \in DOMAIN sent : sent[k].raised =>
              \A i \in DOMAIN sent[k].batch :
                 sent[k].batch[i].to \in Range(result.invalidTokens) =>
                    GotTicket(sent, sent[k].batch[i].to, TicketError("DeviceNotRegistered"))

\* C5: a recipient whose address fails the grammar check is never in a
\* submitted batch and is named neither as a failure nor as an invalid
\* recipient of the result.
C5_MalformedExcluded ==
    \A i \in DOMAIN tokens : tokens[i] \notin WellFormedTokens =>
        /\ ~WasSubmitted(sent, tokens[i])
        /\ pc = "returned" =>
              /\ tokens[i] \notin Range(result.invalidTokens)
              /\ \A j \in DOMAIN errorLog : errorLog[j].to # tokens[i]

\* C6: a recipient is in the invalid-recipient list if and only if the
\* provider answered DeviceNotRegistered to that recipient's own message;
\* every error ticket is counted in failed.
C6_InvalidIffDeviceNotRegistered ==
    pc = "returned" =>
        /\ \A t \in Range(tokens) \cup Range(result.invalidTokens) :
              t \in Range(result.invalidTokens)
                 <=> GotTicket(sent, t, TicketError("DeviceNotRegistered"))
        /\ result.failed >= ErrorTickets(sent, 1)

\* C7: the submitted (total) count of the result is the number of
\* recipients that passed validation.
C7_TotalIsValidatedCount ==
    pc = "returned" => result.total = Len(Validated(tokens))

\* C8: N validated recipients give ceil(N / ChunkSize) submissions, each of
\* at most ChunkSize messages, and the batches concatenated are the
\* validated list in its original order; in sendPushNotifications and in
\* processMatchReminder.
C8_CeilBatchesInOrder ==
    /\ pc = "returned" =>
          /\ Len(sent) = CeilDiv(Len(Validated(tokens)), ChunkSize)
          /\ \A k \in DOMAIN sent : Len(sent[k].batch) \in 1..ChunkSize
          /\ Addresses(sent, 1) = Validated(tokens)
    /\ \A c \in Cycles : PastSending(c) =>
          /\ Len(cyc[c].sent) = CeilDiv(Len(cyc[c].validParticipants), ChunkSize)
          /\ \A k \in DOMAIN cyc[c].sent : Len(cyc[c].sent[k].batch) \in 1..ChunkSize
          /\ Addresses(cyc[c].sent, 1) =
                [i \in DOMAIN cyc[c].validParticipants |->
                    cyc[c].validParticipants[i].push_token]

\* C8 happens: a list with a malformed address whose validated recipients
\* fill one batch and leave a shorter last one.
C8_Witness ==
    /\ pc = "returned"
    /\ Len(Validated(tokens)) < Len(tokens)
    /\ Len(sent) >= 2
    /\ Len(sent[1].batch) = ChunkSize
    /\ Len(sent[Len(sent)].batch) < ChunkSize

\* C9: a dispatch call never ends in a raised error: it is waiting for a
\* submission or it has returned a result object; the empty list returns
\* all-zero counts, an empty invalid list, and makes no transport call.
C9_SenderNeverRaises ==
    /\ pc \in {"idle", "sending", "returned"}
    /\ pc = "sending" => chunkIdx \in 1..Len(chunks)
    /\ pc = "returned" =>
          /\ result.success \in 0..Len(tokens)
          /\ result.failed \in 0..Len(tokens)
          /\ result.total \in 0..Len(tokens)
          /\ Len(result.invalidTokens) <= result.failed
          /\ tokens = <<>> => result = NoResult /\ sent = <<>>

\* C9 happens: a call with a malformed address, a batch for which the
\* transport raised and a provider-reported error has returned.
C9_Witness ==
    /\ pc = "returned"
    /\ Len(Validated(tokens)) < Len(tokens)
    /\ \E k \in DOMAIN sent : sent[k].raised
    /\ result.failed > 0

\* cycle c is executing processMatchReminders.
InProgress(c) == cyc[c].pc \notin {"idle", "done"}

\* C10: at most one execution of processMatchReminders is in progress at
\* any time, whatever the interleaving of the startup run and the ticks.
C10_SingleFlight ==
    Cardinality({c \in Cycles : InProgress(c)}) <= 1

\* The match cycle c is processing.
CurrentMatch(c) == cyc[c].matches[cyc[c].mi]

\* Cycle c submitted the reminder of its match and nothing got through, for
\* transient reasons only: every batch raised or was answered rate-limit
\* errors.
OnlyTransientFailures(c) ==
    /\ cyc[c].sent # <<>>
    /\ \A k \in DOMAIN cyc[c].sent :
          \/ cyc[c].sent[k].raised
          \/ \A i \in DOMAIN cyc[c].sent[k].tickets :
                cyc[c].sent[k].tickets[i] = TicketError("MessageRateExceeded")

\* C11: a match whose reminder was not delivered because of transient
\* failures is not marked "reminder sent", so that the next cycle dispatches
\* it again.
C11_TransientFailureLeavesMatchEligible ==
    \A c \in Cycles :
        (cyc[c].pc \in {"removing", "ticketsDone"} /\ OnlyTransientFailures(c))
            => ~reminderSent[CurrentMatch(c)]

\* Cycle c has submitted at least one batch of the reminder of match m and
\* is still processing that match.
Dispatching(c, m) ==
    /\ cyc[c].pc \in {"sending", "logging", "marking", "removing", "ticketsDone"}
    /\ CurrentMatch(c) = m
    /\ cyc[c].sent # <<>>

\* C15: the reminder of a match is submitted to the transport by at most
\* one cycle: while a cycle is dispatching a match, no other cycle has
\* dispatched the same match.
C15_MatchDispatchedByOneCycle ==
    \A m \in Range(Matches) : \A c1, c2 \in Cycles :
        (Dispatching(c1, m) /\ Dispatching(c2, m)) => c1 = c2


(***************************************************************************)
(* Failure boundaries of the loops over matches and over target users      *)
(***************************************************************************)
\* The matches of the fetched list the loop of cycle c has reached.
MatchesReached(c) ==
    SubSeq(cyc[c].matches, 1, Min(cyc[c].mi, Len(cyc[c].matches)))

\* The bulk call is inside sendGameInvitationNotification for one id.
InvitationInProgress ==
    bulk.pc \in {"targetUser", "inviter", "sending", "logging", "removing"}

\* C12: a failure while processing one match or one target user never keeps
\* the remaining ones from being processed: the matches a cycle has begun
\* are always the fetched list up to the loop's position, each once and in
\* order, and all of it when the cycle ends; a bulk call has counted every
\* id before the one in progress exactly once, and when it returns
\* success + failed is the number of target user ids.
C12_FailureDoesNotStopSiblings ==
    /\ \A c \in Cycles :
          /\ cyc[c].processed = MatchesReached(c)
          /\ cyc[c].pc = "done" => cyc[c].processed = cyc[c].matches
    /\ InvitationInProgress => bulk.success + bulk.failed = bulk.idx - 1
    /\ bulk.pc = "returned" =>
          /\ bulk.success + bulk.failed = Len(bulk.targetUserIds)
          /\ Len(bulk.errors) = bulk.failed

\* A bulk call returned after the transport raised for its first id and the
\* second id got its invitation.
C12_Witness ==
    /\ bulk.pc = "returned"
    /\ Len(bulk.targetUserIds) = 2
    /\ bulk.errors = <<[user |-> bulk.targetUserIds[1], error |-> "raised"]>>
    /\ bulk.success = 1


(***************************************************************************)
(* Clearing of push addresses                                              *)
(***************************************************************************)
\* The provider answered DeviceNotRegistered to a message sent to the
\* address user u has in the store.
OwnDeviceNotRegistered(u) ==
    \/ \E c \in Cycles :
          GotTicket(cyc[c].sent, pushToken[u], TicketError("DeviceNotRegistered"))
    \/ GotTicket(bulk.sent, pushToken[u], TicketError("DeviceNotRegistered"))

\* C13: a user's stored push address is set to null only when the provider
\* returned DeviceNotRegistered for a message sent to that same user's
\* address: every step that clears the address of a user is taken in a state
\* where the transport has answered that error to that address.
C13_ClearedOnlyOnOwnDeviceNotRegistered ==
    [][\A u \in Range(Users) :
          (pushToken[u] # NullToken /\ pushToken'[u] = NullToken)
              => OwnDeviceNotRegistered(u)]_vars


(***************************************************************************)
(* Matches with nobody to notify                                           *)
(***************************************************************************)
\* The participants query of cycle c has answered without an error, and no
\* participant of the answer has a well-formed address.
NobodyToNotify(c) ==
    /\ cyc[c].pc = "participants"
    /\ cyc[c].reply.arrived
    /\ ~cyc[c].reply.error
    /\ ValidParticipants(cyc[c].reply.data) = <<>>

\* The store after mark_reminder_sent for match m was applied.
Marked(m) == [reminderSent EXCEPT ![m] = TRUE]

\* C14: when a match has no participants, or none with a well-formed
\* address, processMatchReminder goes straight to the "mark reminder sent"
\* mutation, with no transport submission and no insert into the
\* notification log; once the mutation has answered (the flag is set unless
\* the store refused) the cycle goes on with the next match, as after any
\* completed match, and nothing else in the store has changed.
C14_NobodyToNotifyIsMarkedSent ==
    [][\A c \in Cycles :
          /\ (NobodyToNotify(c) /\ cyc'[c] # cyc[c]) =>
                /\ cyc'[c].pc = "markingEmpty"
                /\ cyc'[c].sent = <<>>
                /\ cyc'[c].chunks = <<>>
                /\ UNCHANGED storeVars
          /\ (cyc[c].pc = "markingEmpty" /\ cyc'[c] # cyc[c]) =>
                /\ reminderSent' \in {Marked(CurrentMatch(c)), reminderSent}
                /\ UNCHANGED <<notifications, pushToken>>
                /\ cyc[c].sent = <<>>
                /\ cyc'[c].mi = cyc[c].mi + 1
                /\ cyc'[c].pc \in {"participants", "done"}]_vars

\* The mark mutation is awaited for a match that has participants, none of
\* them with a well-formed address.
C14_Witness ==
    \E c \in Cycles :
        /\ cyc[c].pc = "markingEmpty"
        /\ cyc[c].reply.data # <<>>
        /\ ValidParticipants(cyc[c].reply.data) = <<>>


(***************************************************************************)
(* Order of submissions, log insert, mark mutation and ticket processing   *)
(***************************************************************************)
\* Cycle c has issued mark_reminder_sent and awaits its answer.
MarkIssued(c) == cyc[c].pc \in {"marking", "markingEmpty"}

\* Every batch of the match of cycle c has been submitted, and there is one.
AllBatchesSubmitted(c) ==
    /\ cyc[c].sent # <<>>
    /\ Len(cyc[c].sent) = Len(cyc[c].chunks)

\* A step in which cycle c issues the mark mutation starts where the log
\* insert has answered, after all submissions.
MarkIssuedAfterLog(c) ==
    (~MarkIssued(c) /\ cyc'[c].pc \in {"marking", "markingEmpty"}) =>
        /\ cyc[c].pc = "logging"
        /\ AllBatchesSubmitted(c)

\* The flags change only where a mark mutation answers, and a cycle that
\* resumes with an error of the participants query issues none: it goes on
\* with the next match.
QueryErrorLeavesUnmarked(c) ==
    /\ (reminderSent' # reminderSent) => \E d \in Cycles : MarkIssued(d)
    /\ (cyc[c].pc = "participants" /\ cyc[c].reply.arrived /\ cyc[c].reply.error
            /\ cyc'[c] # cyc[c]) =>
          /\ reminderSent' = reminderSent
          /\ cyc'[c].mi = cyc[c].mi + 1
          /\ cyc'[c].pc \in {"participants", "done"}

\* Whatever the log insert and the mark mutation answer, the mark is issued
\* after the insert and processTickets runs after the mark, over all tickets.
FailuresDoNotStopTickets(c) ==
    /\ (cyc[c].pc = "logging" /\ cyc'[c] # cyc[c]) => cyc'[c].pc = "marking"
    /\ (cyc[c].pc = "marking" /\ cyc'[c] # cyc[c]) =>
          /\ cyc'[c].pc \in {"removing", "ticketsDone"}
          /\ cyc'[c].tickets # <<>> => cyc'[c].ticketLog # <<>>
    /\ cyc'[c].pc = "ticketsDone" => Len(cyc'[c].ticketLog) = Len(cyc'[c].tickets)

\* C16: the "mark reminder sent" mutation is issued only after every batch
\* of the match has been submitted and the log insert has been attempted,
\* never before the first submission; an error of the participants query
\* leaves the match unmarked; a failure of the log insert or of the mark
\* mutation does not keep the ticket processing from running.
C16_MarkOnlyAfterSubmissionsAndLog ==
    [][\A c \in Cycles :
          /\ MarkIssuedAfterLog(c)
          /\ QueryErrorLeavesUnmarked(c)
          /\ FailuresDoNotStopTickets(c)]_vars

\* C16, for matches with somebody to notify: unless the participants query
\* answered that there is nobody with a well-formed address, the "mark
\* reminder sent" mutation is issued only after every batch of the match has
\* been submitted and the log insert has been attempted; an error of the
\* participants query leaves the match unmarked; a failure of the log insert
\* or of the mark mutation does not keep the ticket processing from running.
C16_MarkAfterSubmissionsUnlessNobodyToNotify ==
    [][\A c \in Cycles :
          /\ NobodyToNotify(c) \/ MarkIssuedAfterLog(c)
          /\ QueryErrorLeavesUnmarked(c)
          /\ FailuresDoNotStopTickets(c)]_vars

\* The log insert and the mark mutation of the first match both failed, and
\* its tickets have been processed.
C16_Witness ==
    \E c \in Cycles :
        /\ cyc[c].pc \in {"removing", "ticketsDone"}
        /\ cyc[c].mi = 1
        /\ notifications = <<>>
        /\ ~reminderSent[CurrentMatch(c)]
        /\ cyc[c].ticketLog # <<>>

=============================================================================
